---- MODULE Spec2Model ----
(***************************************************************************)
(* Trusted-proxy-aware client IP resolution (package common) and the       *)
(* persistent secret bootstrap (package model) of new-api.                 *)
(*                                                                         *)
(* Strings are sequences of one-character strings, so that splitting,      *)
(* trimming, parsing and formatting are computed character by character    *)
(* the way the Go code and the library calls it makes compute them.        *)
(* An IP address is a record [ok, h]: h is the 16-byte form of net.IP as   *)
(* eight 16-bit groups (an IPv4 address is the IPv4-mapped ::ffff:a.b.c.d),*)
(* and ok = FALSE is the nil net.IP.                                       *)
(***************************************************************************)
EXTENDS Integers, Sequences, FiniteSets, TLC

(***************************************************************************)
(* Characters and numbers                                                  *)
(***************************************************************************)
DigitChars == <<"0","1","2","3","4","5","6","7","8","9">>

HexLower == <<"0","1","2","3","4","5","6","7","8","9","a","b","c","d","e","f">>

HexUpper == <<"0","1","2","3","4","5","6","7","8","9","A","B","C","D","E","F">>

\* unicode.IsSpace, the runes with Unicode's White_Space property: '\t',
\* '\n', '\v', '\f', '\r', ' ', U+0085, U+00A0, U+1680, U+2000 to U+200A,
\* U+2028, U+2029, U+202F, U+205F, U+3000.
\* A string is a sequence of runes; a rune that has no escape in a TLA+
\* string is written as its code point.
WhiteSpace ==
    {"\t", "\n", "U+000B", "\f", "\r", " ", "U+0085", "U+00A0",
     "U+1680", "U+2000", "U+2001", "U+2002", "U+2003", "U+2004", "U+2005",
     "U+2006", "U+2007", "U+2008", "U+2009", "U+200A", "U+2028", "U+2029",
     "U+202F", "U+205F", "U+3000"}

IsDigit(c) == \E i \in 1..10 : DigitChars[i] = c

DigitVal(c) == (CHOOSE i \in 1..10 : DigitChars[i] = c) - 1

IsHex(c) == \E i \in 1..16 : HexLower[i] = c \/ HexUpper[i] = c

HexVal(c) == (CHOOSE i \in 1..16 : HexLower[i] = c \/ HexUpper[i] = c) - 1

RECURSIVE Pow2(_)
Pow2(n) == IF n <= 0 THEN 1 ELSE 2 * Pow2(n - 1)

\* the value of a string of decimal digits
RECURSIVE DecValue(_)
DecValue(s) ==
    IF s = <<>> THEN 0
    ELSE 10 * DecValue(SubSeq(s, 1, Len(s) - 1)) + DigitVal(s[Len(s)])

\* the value of a string of hexadecimal digits
RECURSIVE HexValue(_)
HexValue(s) ==
    IF s = <<>> THEN 0
    ELSE 16 * HexValue(SubSeq(s, 1, Len(s) - 1)) + HexVal(s[Len(s)])

\* strconv.Itoa for n >= 0
RECURSIVE Itoa(_)
Itoa(n) ==
    IF n < 10 THEN <<DigitChars[n + 1]>>
    ELSE Itoa(n \div 10) \o <<DigitChars[(n % 10) + 1]>>

\* lower-case hexadecimal without leading zeros (appendHex)
RECURSIVE FormatHex(_)
FormatHex(n) ==
    IF n < 16 THEN <<HexLower[n + 1]>>
    ELSE FormatHex(n \div 16) \o <<HexLower[(n % 16) + 1]>>

(***************************************************************************)
(* package strings                                                         *)
(***************************************************************************)
RECURSIVE TrimLeft(_)
TrimLeft(s) ==
    IF s # <<>> /\ Head(s) \in WhiteSpace THEN TrimLeft(Tail(s)) ELSE s

RECURSIVE TrimRight(_)
TrimRight(s) ==
    IF s # <<>> /\ s[Len(s)] \in WhiteSpace
    THEN TrimRight(SubSeq(s, 1, Len(s) - 1))
    ELSE s

TrimSpace(s) == TrimRight(TrimLeft(s))

\* position of the first c in s, counted from 1; 0 when s holds no c
IndexByte(s, c) ==
    IF \E i \in 1..Len(s) : s[i] = c
    THEN CHOOSE i \in 1..Len(s) : s[i] = c /\ \A j \in 1..(i - 1) : s[j] # c
    ELSE 0

\* position of the last c in s, counted from 1; 0 when s holds no c
LastIndexByte(s, c) ==
    IF \E i \in 1..Len(s) : s[i] = c
    THEN CHOOSE i \in 1..Len(s) : s[i] = c /\ \A j \in (i + 1)..Len(s) : s[j] # c
    ELSE 0

ContainsByte(s, c) == IndexByte(s, c) # 0

\* s without its leading "0" characters
RECURSIVE TrimZeros(_)
TrimZeros(s) == IF s # <<>> /\ Head(s) = "0" THEN TrimZeros(Tail(s)) ELSE s

\* strings.Split(s, c) for a one-character separator
RECURSIVE Split(_, _)
Split(s, c) ==
    LET i == IndexByte(s, c)
    IN  IF i = 0 THEN <<s>>
        ELSE <<SubSeq(s, 1, i - 1)>> \o Split(SubSeq(s, i + 1, Len(s)), c)

\* strings.FieldsFunc(s, f) with f(r) == r \in seps
RECURSIVE FieldsFunc(_, _)
FieldsFunc(s, seps) ==
    IF s = <<>> THEN <<>>
    ELSE IF Head(s) \in seps THEN FieldsFunc(Tail(s), seps)
    ELSE LET n == IF \E i \in 1..Len(s) : s[i] \in seps
                  THEN CHOOSE i \in 1..Len(s) :
                           s[i] \in seps /\ \A j \in 1..(i - 1) : s[j] \notin seps
                  ELSE Len(s) + 1
         IN  <<SubSeq(s, 1, n - 1)>> \o FieldsFunc(SubSeq(s, n, Len(s)), seps)

\* strings.Join(list, sep)
RECURSIVE Join(_, _)
Join(list, sep) ==
    IF list = <<>> THEN <<>>
    ELSE IF Len(list) = 1 THEN list[1]
    ELSE list[1] \o sep \o Join(Tail(list), sep)

(***************************************************************************)
(* package net: ParseIP, IP.String, SplitHostPort, ParseCIDR, Contains.    *)
(* A value that the Go code names once and reads several times is passed   *)
(* to a helper operator as an argument.                                    *)
(***************************************************************************)
NilIP == [ok |-> FALSE, h |-> <<>>]

MkIP(h) == [ok |-> TRUE, h |-> h]

\* one dotted-decimal field: 1..3 digits, no leading zero, at most 255
IsV4Field(f) ==
    /\ Len(f) \in 1..3
    /\ \A i \in 1..Len(f) : IsDigit(f[i])
    /\ (Len(f) > 1 => f[1] # "0")
    /\ DecValue(f) <= 255

v4Bytes(fs) ==
    IF Len(fs) = 4 /\ \A i \in 1..4 : IsV4Field(fs[i])
    THEN [ok |-> TRUE, b |-> [i \in 1..4 |-> DecValue(fs[i])]]
    ELSE [ok |-> FALSE, b |-> <<>>]

\* netip.parseIPv4Fields: the four bytes of a.b.c.d
parseIPv4Fields(s) == v4Bytes(Split(s, "."))

\* the last two groups of the 16-byte form of a.b.c.d
v4Groups(b) == <<b[1] * 256 + b[2], b[3] * 256 + b[4]>>

v4Mapped(r) ==
    IF r.ok THEN MkIP(<<0, 0, 0, 0, 0, 65535>> \o v4Groups(r.b)) ELSE NilIP

parseIPv4(s) == v4Mapped(parseIPv4Fields(s))

\* the number of leading hexadecimal digits of s
RECURSIVE HexRunLen(_)
HexRunLen(s) ==
    IF s # <<>> /\ IsHex(Head(s)) THEN 1 + HexRunLen(Tail(s)) ELSE 0

V6Fail == [ok |-> FALSE, s |-> <<>>, ip |-> <<>>, ell |-> -1]

V6Ok(s, ip, ell) == [ok |-> TRUE, s |-> s, ip |-> ip, ell |-> ell]

\* the trailing IPv4 of an IPv6 text: v4 is what parseIPv4Fields made of it
v6Tail(ip, ell, v4) ==
    IF ~v4.ok THEN V6Fail ELSE V6Ok(<<>>, ip \o v4Groups(v4.b), ell)

\* the group loop of netip.parseIPv6: s is the unread input, ip the groups
\* read so far, ell the position of the "::" (-1: none yet)
RECURSIVE V6Loop(_, _, _)
RECURSIVE v6Group(_, _, _, _)
RECURSIVE v6After(_, _, _)
V6Loop(s, ip, ell) ==
    IF Len(ip) >= 8 THEN V6Ok(s, ip, ell)
    ELSE v6Group(s, ip, ell, HexRunLen(s))

\* one round of the loop: off hexadecimal digits lead s
v6Group(s, ip, ell, off) ==
    IF off = 0 \/ off > 4 THEN V6Fail
    ELSE IF off < Len(s) /\ s[off + 1] = "."
    THEN IF (ell < 0 /\ Len(ip) # 6) \/ Len(ip) + 2 > 8 THEN V6Fail
         ELSE v6Tail(ip, ell, parseIPv4Fields(s))
    ELSE v6After(SubSeq(s, off + 1, Len(s)),
                 Append(ip, HexValue(SubSeq(s, 1, off))), ell)

\* what follows a group: the end, ":" and more, or "::"
v6After(s, ip, ell) ==
    IF s = <<>> THEN V6Ok(s, ip, ell)
    ELSE IF s[1] # ":" THEN V6Fail
    ELSE IF Len(s) = 1 THEN V6Fail
    ELSE IF s[2] = ":"
    THEN IF ell >= 0 THEN V6Fail
         ELSE IF Len(s) = 2 THEN V6Ok(<<>>, ip, Len(ip))
         ELSE V6Loop(SubSeq(s, 3, Len(s)), ip, Len(ip))
    ELSE V6Loop(Tail(s), ip, ell)

\* the end of netip.parseIPv6: the whole input was read, the "::" expands
v6Expand(r) ==
    IF ~r.ok \/ r.s # <<>> THEN NilIP
    ELSE IF Len(r.ip) < 8
    THEN IF r.ell < 0 THEN NilIP
         ELSE MkIP(SubSeq(r.ip, 1, r.ell)
                   \o [i \in 1..(8 - Len(r.ip)) |-> 0]
                   \o SubSeq(r.ip, r.ell + 1, Len(r.ip)))
    ELSE IF r.ell >= 0 THEN NilIP
    ELSE MkIP(r.ip)

\* netip.parseIPv6 for an input without a zone
parseIPv6(in) ==
    IF Len(in) >= 2 /\ in[1] = ":" /\ in[2] = ":"
    THEN IF Len(in) = 2 THEN MkIP(<<0, 0, 0, 0, 0, 0, 0, 0>>)
         ELSE v6Expand(V6Loop(SubSeq(in, 3, Len(in)), <<>>, 0))
    ELSE v6Expand(V6Loop(in, <<>>, -1))

\* the first of '.', ':' and '%' in s decides the syntax (netip.ParseAddr)
RECURSIVE FirstMark(_)
FirstMark(s) ==
    IF s = <<>> THEN ""
    ELSE IF Head(s) \in {".", ":", "%"} THEN Head(s)
    ELSE FirstMark(Tail(s))

parseAddr(s, mark) ==
    IF mark = "." THEN parseIPv4(s)
    ELSE IF mark = ":" THEN parseIPv6(s)
    ELSE NilIP

\* net.ParseIP: an address with a zone is nil
ParseIP(s) ==
    IF ContainsByte(s, "%") THEN NilIP ELSE parseAddr(s, FirstMark(s))

\* IP.To4() != nil
IsTo4(ip) == ip.ok /\ SubSeq(ip.h, 1, 6) = <<0, 0, 0, 0, 0, 65535>>

\* the length of the run of zero groups of h that starts at i
RECURSIVE ZeroRun(_, _)
ZeroRun(h, i) == IF i <= Len(h) /\ h[i] = 0 THEN 1 + ZeroRun(h, i + 1) ELSE 0

\* the start of the first longest run of zero groups
LongestRun(h) ==
    CHOOSE i \in 1..8 :
        /\ \A j \in 1..8 : ZeroRun(h, j) <= ZeroRun(h, i)
        /\ \A j \in 1..(i - 1) : ZeroRun(h, j) < ZeroRun(h, i)

RECURSIVE JoinGroups(_)
JoinGroups(gs) ==
    IF gs = <<>> THEN <<>>
    ELSE IF Len(gs) = 1 THEN FormatHex(gs[1])
    ELSE FormatHex(gs[1]) \o <<":">> \o JoinGroups(Tail(gs))

\* the IPv6 text of h with the run of n zero groups at e0 written "::"
\* when it is two groups or more
v6Text(h, e0, n) ==
    IF n < 2 THEN JoinGroups(h)
    ELSE JoinGroups(SubSeq(h, 1, e0 - 1)) \o <<":", ":">>
         \o JoinGroups(SubSeq(h, e0 + n, 8))

v6String(h, e0) == v6Text(h, e0, ZeroRun(h, e0))

\* IP.String(): dotted decimal for an IPv4 address, else RFC 5952 text
IPString(ip) ==
    IF ~ip.ok THEN <<>>       \* the callers never format nil
    ELSE IF IsTo4(ip)
    THEN Itoa(ip.h[7] \div 256) \o <<".">> \o Itoa(ip.h[7] % 256) \o <<".">>
         \o Itoa(ip.h[8] \div 256) \o <<".">> \o Itoa(ip.h[8] % 256)
    ELSE v6String(ip.h, LongestRun(ip.h))

NoHost == [ok |-> FALSE, host |-> <<>>]

\* the bracketed form "[host]:port": i is the last ':', end the first ']'
splitBracketed(hp, i, end) ==
    IF end = 0 THEN NoHost
    ELSE IF end + 1 # i THEN NoHost
    ELSE IF ContainsByte(SubSeq(hp, 2, Len(hp)), "[")
            \/ ContainsByte(SubSeq(hp, end + 1, Len(hp)), "]")
    THEN NoHost
    ELSE [ok |-> TRUE, host |-> SubSeq(hp, 2, end - 1)]

splitAt(hp, i) ==
    IF i = 0 THEN NoHost
    ELSE IF hp[1] = "[" THEN splitBracketed(hp, i, IndexByte(hp, "]"))
    ELSE IF ContainsByte(SubSeq(hp, 1, i - 1), ":") THEN NoHost
    ELSE IF ContainsByte(hp, "[") \/ ContainsByte(hp, "]") THEN NoHost
    ELSE [ok |-> TRUE, host |-> SubSeq(hp, 1, i - 1)]

\* net.SplitHostPort: [ok, host]; the port is not used by the callers
SplitHostPort(hp) == splitAt(hp, LastIndexByte(hp, ":"))

NilNet == [ok |-> FALSE, h |-> <<>>, bits |-> 0, v4 |-> FALSE]

\* group i of h under a mask of `bits` leading one bits
MaskGroup(h, i, bits) ==
    LET k == IF bits >= 16 * i THEN 16
             ELSE IF bits <= 16 * (i - 1) THEN 0
             ELSE bits - 16 * (i - 1)
    IN  (h[i] \div Pow2(16 - k)) * Pow2(16 - k)

\* the network of address ip with a prefix of n bits, is4: written as IPv4
mkNet(ip, is4, n) ==
    IF n > (IF is4 THEN 32 ELSE 128) THEN NilNet
    ELSE [ok |-> TRUE, v4 |-> is4, bits |-> n,
          h |-> [g \in 1..8 |-> MaskGroup(ip.h, g, IF is4 THEN n + 96 ELSE n)]]

cidrOf(ip, is4, mask) ==
    IF ~ip.ok THEN NilNet
    ELSE IF mask = <<>> \/ \E j \in 1..Len(mask) : ~IsDigit(mask[j]) THEN NilNet
    ELSE IF Len(TrimZeros(mask)) > 3 THEN NilNet
    ELSE mkNet(ip, is4, DecValue(mask))

splitCIDR(addr, mask) == cidrOf(ParseIP(addr), FirstMark(addr) = ".", mask)

cidrAt(s, i) ==
    IF i = 0 THEN NilNet
    ELSE splitCIDR(SubSeq(s, 1, i - 1), SubSeq(s, i + 1, Len(s)))

\* net.ParseCIDR: the network [h: the masked address as 16 bytes, bits: the
\* prefix length, v4: the address was written as IPv4 (4-byte IP and mask)]
ParseCIDR(s) == cidrAt(s, IndexByte(s, "/"))

\* the comparison of IPNet.Contains: n4, the network number is 4 bytes
\* (networkNumberAndMask), nbits, the mask bits that cover those 4 bytes
netMatch(n, ip, n4, nbits) ==
    IF IsTo4(ip)
    THEN /\ n4
         /\ \A g \in 7..8 :
              MaskGroup(n.h, g, nbits + 96) = MaskGroup(ip.h, g, nbits + 96)
    ELSE /\ ~n4
         /\ \A g \in 1..8 :
              MaskGroup(n.h, g, n.bits) = MaskGroup(ip.h, g, n.bits)

\* IPNet.Contains
NetContains(n, ip) ==
    netMatch(n, ip, n.v4 \/ IsTo4(MkIP(n.h)),
             IF n.v4 THEN n.bits ELSE IF n.bits > 96 THEN n.bits - 96 ELSE 0)

(***************************************************************************)
(* package common: the private/reserved classification used by the         *)
(* candidate selection.  Its file is not part of the sources at hand; the  *)
(* ranges are the standard loopback, link-local and RFC 1918 blocks.       *)
(***************************************************************************)
IsPrivateIP(ip) ==
    IF IsTo4(ip)
    THEN \/ ip.h[7] \div 256 = 127                          \* 127.0.0.0/8
         \/ ip.h[7] = 169 * 256 + 254                       \* 169.254.0.0/16
         \/ (ip.h[7] = 224 * 256 /\ ip.h[8] \div 256 = 0)   \* 224.0.0.0/24
         \/ ip.h[7] \div 256 = 10                           \* 10.0.0.0/8
         \/ ip.h[7] \div 16 = (172 * 256 + 16) \div 16      \* 172.16.0.0/12
         \/ ip.h[7] = 192 * 256 + 168                       \* 192.168.0.0/16
    ELSE \/ ip.h = <<0, 0, 0, 0, 0, 0, 0, 1>>               \* ::1
         \/ ip.h[1] \div 64 = 65152 \div 64                 \* fe80::/10
         \/ (ip.h[1] \div 256 = 255 /\ ip.h[1] % 16 = 2)    \* ff02::/16

(***************************************************************************)
(* package common: the client IP resolver                                  *)
(***************************************************************************)
HeaderNames == <<"X-Forwarded-For", "X-Real-IP", "CF-Connecting-IP">>

DefaultProxyList == << <<"0",".","0",".","0",".","0","/","0">>, <<":",":","/","0">> >>

\* lines 63-70 of parseRemoteIP: t is the trimmed address, r the result of
\* SplitHostPort
remoteHost(t, r) == IF r.ok THEN r.host ELSE t

hostIP(host) == IF host = <<>> THEN NilIP ELSE ParseIP(host)

trimmedRemoteIP(t) == hostIP(remoteHost(t, SplitHostPort(t)))

parseRemoteIP(remoteAddr) == trimmedRemoteIP(TrimSpace(remoteAddr))

\* the loop of pickForwardedIP over the entries still to scan
RECURSIVE pickLoop(_, _)
RECURSIVE pickEntry(_, _, _, _)
pickLoop(parts, firstValid) ==
    IF parts = <<>> THEN firstValid
    ELSE pickEntry(Tail(parts), firstValid, TrimSpace(Head(parts)),
                   ParseIP(TrimSpace(Head(parts))))

\* pickEntry without the private/reserved test: the first valid entry wins
pickEntryAnyValid(rest, firstValid, ipStr, ip) ==
    IF ipStr = <<>> THEN pickLoop(rest, firstValid)
    ELSE IF ~ip.ok THEN pickLoop(rest, firstValid)
    ELSE ipStr

\* one entry: ipStr, trimmed, and ip, what net.ParseIP made of it
pickEntry(rest, firstValid, ipStr, ip) ==
    IF ipStr = <<>> THEN pickLoop(rest, firstValid)
    ELSE IF ~ip.ok THEN pickLoop(rest, firstValid)
    ELSE IF ~IsPrivateIP(ip) THEN ipStr
    ELSE pickLoop(rest, IF firstValid = <<>> THEN ipStr ELSE firstValid)

pickForwardedIP(headerVal) ==
    IF headerVal = <<>> THEN <<>>
    ELSE pickLoop(Split(headerVal, ","), <<>>)

\* list with v appended when v is not empty
appendNonEmpty(v, rest) == (IF v # <<>> THEN <<v>> ELSE <<>>) \o rest

\* the trimmed, non-empty members of parts, in order
RECURSIVE trimmedNonEmpty(_)
trimmedNonEmpty(parts) ==
    IF parts = <<>> THEN <<>>
    ELSE appendNonEmpty(TrimSpace(Head(parts)), trimmedNonEmpty(Tail(parts)))

splitProxyList(raw) == trimmedNonEmpty(FieldsFunc(raw, {",", ";"}))

\* an entry without "/": the mask its address family asks for
bareProxyCIDR(proxy, ip) ==
    IF ~ip.ok THEN NilNet
    ELSE ParseCIDR(proxy \o (IF IsTo4(ip) THEN <<"/", "3", "2">>
                             ELSE <<"/", "1", "2", "8">>))

\* one iteration of parseProxyCIDRs: the parsed network, or ok = FALSE when
\* the entry is logged and skipped
parseProxyCIDR(proxy) ==
    IF ~ContainsByte(proxy, "/") THEN bareProxyCIDR(proxy, ParseIP(proxy))
    ELSE ParseCIDR(proxy)

appendParsed(cidr, rest) == (IF cidr.ok THEN <<cidr>> ELSE <<>>) \o rest

RECURSIVE parseProxyCIDRs(_)
parseProxyCIDRs(list) ==
    IF list = <<>> THEN <<>>
    ELSE appendParsed(parseProxyCIDR(Head(list)), parseProxyCIDRs(Tail(list)))

\* the loop of isTrustedProxyIP over the loaded ranges
cidrsContain(cidrs, ip) == \E i \in 1..Len(cidrs) : NetContains(cidrs[i], ip)

\* lines 110-113 of loadTrustedProxies: the list, or the default for none
listOrDefault(list) == IF Len(list) = 0 THEN DefaultProxyList ELSE list

loadList(proxiesEnv) == listOrDefault(splitProxyList(proxiesEnv))

\* loadFallback without the reset of lines 115-118
loadFallbackNoReset(list, cidrs) == [list |-> list, cidrs |-> cidrs]

\* lines 115-118: the reset to the default when no range parsed
loadFallback(list, cidrs) ==
    IF Len(cidrs) = 0
    THEN [list |-> DefaultProxyList, cidrs |-> parseProxyCIDRs(DefaultProxyList)]
    ELSE [list |-> list, cidrs |-> cidrs]

\* lines 114-118
loadParse(list) == loadFallback(list, parseProxyCIDRs(list))

\* the whole body of the function loadTrustedProxies runs once: what
\* trustedProxyList and trustedProxyCIDRs hold after it
loadBody(proxiesEnv) == loadParse(loadList(proxiesEnv))

\* a request: nil, or its RemoteAddr and its Header (name -> first value,
\* the empty string for a header that is absent)
NilRequest == [nil |-> TRUE, RemoteAddr |-> <<>>, Header |-> <<>>]

MkRequest(remoteAddr, header) ==
    [nil |-> FALSE, RemoteAddr |-> remoteAddr, Header |-> header]

firstNonEmpty(ip, rest) == IF ip # <<>> THEN ip ELSE rest

\* headerWalk that stops at the first header that is present, candidate or not
RECURSIVE headerWalkFirstPresent(_, _, _)
headerWalkFirstPresent(header, names, i) ==
    IF i > Len(names) THEN <<>>
    ELSE IF header[names[i]] # <<>> THEN pickForwardedIP(header[names[i]])
    ELSE headerWalkFirstPresent(header, names, i + 1)

\* the header walk of lines 44-48: the candidate of the first of the headers
\* names[i..] that yields one, or the empty string
RECURSIVE headerWalk(_, _, _)
headerWalk(header, names, i) ==
    IF i > Len(names) THEN <<>>
    ELSE firstNonEmpty(pickForwardedIP(header[names[i]]),
                       headerWalk(header, names, i + 1))

\* resolveFrom without the trust check of line 43
resolveFromAnyRemote(r, cidrs, remoteIP) ==
    firstNonEmpty(IF remoteIP.ok THEN headerWalk(r.Header, HeaderNames, 1) ELSE <<>>,
                  IF remoteIP.ok THEN IPString(remoteIP) ELSE <<>>)

\* lines 43-53: remoteIP is what parseRemoteIP returned
resolveFrom(r, cidrs, remoteIP) ==
    firstNonEmpty(IF remoteIP.ok /\ cidrsContain(cidrs, remoteIP)
                  THEN headerWalk(r.Header, HeaderNames, 1)
                  ELSE <<>>,
                  IF remoteIP.ok THEN IPString(remoteIP) ELSE <<>>)

\* RealClientIPFromRequest, given the ranges isTrustedProxyIP reads
RealClientIPFromRequest(r, cidrs) ==
    IF r.nil THEN <<>>
    ELSE resolveFrom(r, cidrs, parseRemoteIP(r.RemoteAddr))

\* whether RealClientIPFromRequest(r) reaches isTrustedProxyIP, and with it
\* loadTrustedProxies (line 43: the && is not evaluated for a nil remoteIP)
reachesTrustCheck(r) == ~r.nil /\ parseRemoteIP(r.RemoteAddr).ok

ginRemoteIP(sp) == IF sp.ok THEN ParseIP(sp.host) ELSE NilIP

\* gin's Context.ClientIP() where line 33 calls it: the resolution was
\* empty, so gin finds no remote IP either and the header branch of gin is
\* never reached
ginClientIP(r) == IPString(ginRemoteIP(SplitHostPort(TrimSpace(r.RemoteAddr))))

(***************************************************************************)
(* Inputs                                                                  *)
(***************************************************************************)
\* values of TRUSTED_PROXIES: "", "10.0.0.0/8", "10.0.0.0/8, bad",
\* "not-an-ip, also-bad", "\f;\v,<U+00A0>", "10.0.0.1;2001:db8::/32"
EnvValues ==
    { <<>>,
      <<"1","0",".","0",".","0",".","0","/","8">>,
      <<"1","0",".","0",".","0",".","0","/","8",","," ","b","a","d">>,
      <<"n","o","t","-","a","n","-","i","p",","," ","a","l","s","o","-","b","a","d">>,
      <<"\f",";","U+000B",",","U+00A0">>,
      <<"1","0",".","0",".","0",".","1",";","2","0","0","1",":","d","b","8",":",":","/","3","2">> }

\* the values TRUSTED_PROXIES is changed to: "", "10.0.0.0/8"
EnvChanges ==
    { <<>>,
      <<"1","0",".","0",".","0",".","0","/","8">> }

\* values of Request.RemoteAddr: "203.0.113.9:1234", "\f10.0.0.1:443<U+0085>",
\* "[2001:DB8::9]:80", "", "bad-addr"
RemoteAddrs ==
    { <<"2","0","3",".","0",".","1","1","3",".","9",":","1","2","3","4">>,
      <<"\f","1","0",".","0",".","0",".","1",":","4","4","3","U+0085">>,
      <<"[","2","0","0","1",":","D","B","8",":",":","9","]",":","8","0">>,
      <<>>,
      <<"b","a","d","-","a","d","d","r">> }

\* values of X-Forwarded-For: "", "203.0.113.7, 10.0.0.5",
\* "10.0.0.5, 10.0.0.6", "unknown, ,"
XFFValues ==
    { <<>>,
      <<"2","0","3",".","0",".","1","1","3",".","7",","," ","1","0",".","0",".","0",".","5">>,
      <<"1","0",".","0",".","0",".","5",","," ","1","0",".","0",".","0",".","6">>,
      <<"u","n","k","n","o","w","n",","," ",",">> }

\* values of X-Real-IP: "198.51.100.9", "not-an-ip"
XRIValues ==
    { <<"1","9","8",".","5","1",".","1","0","0",".","9">>,
      <<"n","o","t","-","a","n","-","i","p">> }

\* values of CF-Connecting-IP: "", "2001:DB8::1"
CFValues ==
    { <<>>,
      <<"2","0","0","1",":","D","B","8",":",":","1">> }

\* the values a header takes
HeaderValuesOf(name) ==
    IF name = "X-Forwarded-For" THEN XFFValues
    ELSE IF name = "X-Real-IP" THEN XRIValues
    ELSE CFValues

HeaderNameSet == {HeaderNames[i] : i \in 1..Len(HeaderNames)}

Headers == {[n \in HeaderNameSet |->
                IF n = "X-Forwarded-For" THEN x ELSE IF n = "X-Real-IP" THEN r ELSE c] :
            x \in XFFValues, r \in XRIValues, c \in CFValues}

\* entries of a forwarded-for chain: "203.0.113.7", "10.0.0.5", "unknown",
\* "", " 198.51.100.9 ", "fe80::1", "<U+3000>10.0.0.6\f"
Entries ==
    { <<"2","0","3",".","0",".","1","1","3",".","7">>,
      <<"1","0",".","0",".","0",".","5">>,
      <<"u","n","k","n","o","w","n">>,
      <<>>,
      <<" ","1","9","8",".","5","1",".","1","0","0",".","9"," ">>,
      <<"f","e","8","0",":",":","1">>,
      <<"U+3000","1","0",".","0",".","0",".","6","\f">> }

\* the longest chain of entries in a header value under test
MaxEntries == 3

Chains == UNION {[1..n -> Entries] : n \in 1..MaxEntries}

(***************************************************************************)
(* State                                                                   *)
(***************************************************************************)
VARIABLES
    env,                \* the value os.Getenv("TRUSTED_PROXIES") returns now
    trustedProxyList,   \* package variable, line 18
    trustedProxyCIDRs,  \* package variable, line 16
    onceDone,           \* trustedProxyOnce: its done flag
    loadedFrom,         \* history: the values of TRUSTED_PROXIES the body read
    req,                \* the gin context's Request
    keys,               \* the gin context's Keys[realClientIPKey]
    last,               \* history: the last operation on the context
    chain,              \* candidate selection alone: the entries of the value
    picked,             \* candidate selection alone: what was returned
    pc,                 \* goroutines: where each one is
    onceMu,             \* trustedProxyOnce: the goroutine that holds its mutex, or 0
    proxiesEnv,         \* goroutines: the local of line 109
    calls,              \* goroutines: the calls each one has completed
    obs,                \* goroutines: what each one's last call read
    options,            \* the options table: the rows of the two secrets
    osEnv,              \* instances: SESSION_SECRET and CRYPTO_SECRET of each
    ipc,                \* instances: where each one is in EnsurePersistentSecrets
    loc,                \* instances: the locals of EnsurePersistentSecrets
    secrets,            \* instances: common.SessionSecret and common.CryptoSecret
    ret,                \* instances: what EnsurePersistentSecrets returned
    ctx,                \* goroutines: the gin context each one serves
    call                \* goroutines: the call each one is in, and when it began

vars == <<env, trustedProxyList, trustedProxyCIDRs, onceDone, loadedFrom,
          req, keys, last, chain, picked, pc, onceMu, proxiesEnv, calls, obs,
          options, osEnv, ipc, loc, secrets, ret, ctx, call>>

trustVars == <<trustedProxyList, trustedProxyCIDRs, onceDone, loadedFrom>>

ctxVars == <<req, keys, last>>

pickVars == <<chain, picked>>

onceVars == <<pc, onceMu, proxiesEnv, calls, obs>>

\* what the resolver on one context leaves alone
secVars == <<options, osEnv, ipc, loc, secrets, ret>>

frameVars == <<ctx, call>>

notCtx == <<pickVars, onceVars, secVars, frameVars>>

NoKey == [set |-> FALSE, val |-> <<>>]

\* last.after, kept for RealClientIP: "same" when the operation before was
\* RealClientIP on the request as it is now (last.prev is what it returned),
\* "mutate" when it changed the request, "other" else
NoCall == [op |-> "none", arg |-> "req", result |-> <<>>, parsed |-> FALSE,
           cached |-> <<>>, after |-> "other", prev |-> <<>>]

After == IF last.op = "RealClientIP" THEN "same"
         ELSE IF last.op = "mutate" THEN "mutate"
         ELSE "other"

Prev == IF last.op = "RealClientIP" THEN last.result ELSE <<>>

TrustInit ==
    /\ env \in EnvValues
    /\ trustedProxyList = <<>>
    /\ trustedProxyCIDRs = <<>>
    /\ onceDone = 0
    /\ loadedFrom = <<>>

CtxInit ==
    /\ req \in {MkRequest(a, h) : a \in RemoteAddrs, h \in Headers}
    /\ keys = NoKey
    /\ last = NoCall

CtxIdle ==
    /\ req = NilRequest
    /\ keys = NoKey
    /\ last = NoCall

PickIdle ==
    /\ chain = <<>>
    /\ picked = [done |-> FALSE, val |-> <<>>]

\* the goroutines a specification has
NumProcs == 2

Procs == 1..NumProcs

\* the calls a goroutine makes
MaxCalls == 2

NoObs == [read |-> FALSE, op |-> "", val |-> <<>>]

OnceIdle ==
    /\ pc = [p \in Procs |-> "idle"]
    /\ onceMu = 0
    /\ proxiesEnv = [p \in Procs |-> <<>>]
    /\ calls = [p \in Procs |-> 0]
    /\ obs = [p \in Procs |-> NoObs]

NoFrameCall == [op |-> "", phase |-> ""]

FrameIdle ==
    /\ ctx = [p \in Procs |-> [req |-> NilRequest, keys |-> NoKey]]
    /\ call = [p \in Procs |-> NoFrameCall]

\* the instances that share one options table
NumInstances == 2

Instances == 1..NumInstances

NoLocals == [sessionSecretFromEnv |-> <<>>, cryptoSecretFromEnv |-> <<>>,
             sessionSecret |-> <<>>, sessionSecretSource |-> "",
             generatedSessionSecret |-> FALSE]

NoSecrets == [SessionSecret |-> <<>>, CryptoSecret |-> <<>>]

NoRow == [found |-> FALSE, value |-> <<>>]

SecretsIdle ==
    /\ options = [k \in {"SessionSecret", "CryptoSecret"} |-> NoRow]
    /\ osEnv = [i \in Instances |-> [SESSION_SECRET |-> <<>>, CRYPTO_SECRET |-> <<>>]]
    /\ ipc = [i \in Instances |-> "L22"]
    /\ loc = [i \in Instances |-> NoLocals]
    /\ secrets = [i \in Instances |-> NoSecrets]
    /\ ret = [i \in Instances |-> "running"]

(***************************************************************************)
(* The resolver on one request context, calls taken whole                  *)
(***************************************************************************)
\* the body of loadTrustedProxies has run: b is what it stored
storeLoaded(b) ==
    /\ trustedProxyList' = b.list
    /\ trustedProxyCIDRs' = b.cidrs
    /\ onceDone' = 1
    /\ loadedFrom' = Append(loadedFrom, env)

\* loadTrustedProxies() where no other goroutine is inside it
loadTrustedProxies ==
    IF onceDone = 0 THEN storeLoaded(loadBody(env)) ELSE UNCHANGED trustVars

\* cacheAndReturn without the c.Set of line 30
cacheAndReturnNoSet(ip) ==
    /\ keys' = keys
    /\ last' = [op |-> "RealClientIP", arg |-> "req",
                result |-> IF ip # <<>> THEN ip ELSE ginClientIP(req),
                parsed |-> TRUE, cached |-> <<>>,
                after |-> After, prev |-> Prev]

\* lines 29-33 of RealClientIP: ip is what RealClientIPFromRequest returned
cacheAndReturn(ip) ==
    /\ keys' = IF ip # <<>> THEN [set |-> TRUE, val |-> ip] ELSE keys
    /\ last' = [op |-> "RealClientIP", arg |-> "req",
                result |-> IF ip # <<>> THEN ip ELSE ginClientIP(req),
                parsed |-> TRUE, cached |-> <<>>,
                after |-> After, prev |-> Prev]

\* RealClientIP without the cache lookup of lines 23-27
RealClientIPAlwaysResolves ==
    /\ ~req.nil
    /\ IF reachesTrustCheck(req) THEN loadTrustedProxies ELSE UNCHANGED trustVars
    /\ cacheAndReturn(RealClientIPFromRequest(req, trustedProxyCIDRs'))
    /\ UNCHANGED <<env, req, notCtx>>

\* RealClientIP(c)
RealClientIP ==
    /\ ~req.nil
    /\ IF keys.set /\ keys.val # <<>>
       THEN /\ last' = [op |-> "RealClientIP", arg |-> "req", result |-> keys.val,
                        parsed |-> FALSE, cached |-> keys.val,
                        after |-> After, prev |-> Prev]
            /\ UNCHANGED <<keys, trustVars>>
       ELSE /\ IF reachesTrustCheck(req) THEN loadTrustedProxies
               ELSE UNCHANGED trustVars
            /\ cacheAndReturn(RealClientIPFromRequest(req, trustedProxyCIDRs'))
    /\ UNCHANGED <<env, req, notCtx>>

\* RealClientIPFromRequest(c.Request), or RealClientIPFromRequest(nil)
CallRealClientIPFromRequest ==
    /\ \E r \in {req, NilRequest} :
         /\ IF reachesTrustCheck(r) THEN loadTrustedProxies
            ELSE UNCHANGED trustVars
         /\ last' = [op |-> "RealClientIPFromRequest",
                     arg |-> IF r.nil THEN "nil" ELSE "req",
                     result |-> RealClientIPFromRequest(r, trustedProxyCIDRs'),
                     parsed |-> TRUE, cached |-> <<>>,
                     after |-> "other", prev |-> <<>>]
    /\ UNCHANGED <<env, req, keys, notCtx>>

\* TrustedProxies()
TrustedProxies ==
    /\ loadTrustedProxies
    /\ last' = [op |-> "TrustedProxies", arg |-> "req",
                result |-> trustedProxyList', parsed |-> FALSE,
                cached |-> <<>>, after |-> "other", prev |-> <<>>]
    /\ UNCHANGED <<env, req, keys, notCtx>>

\* the handler chain changes a header of the request between two calls
SetHeader ==
    /\ ~req.nil
    /\ \E n \in HeaderNameSet : \E v \in HeaderValuesOf(n) :
         /\ v # req.Header[n]
         /\ req' = [req EXCEPT !.Header[n] = v]
    /\ last' = [NoCall EXCEPT !.op = "mutate"]
    /\ UNCHANGED <<env, trustVars, keys, notCtx>>

\* the handler chain changes the request's RemoteAddr between two calls
SetRemoteAddr ==
    /\ ~req.nil
    /\ \E a \in RemoteAddrs :
         /\ a # req.RemoteAddr
         /\ req' = [req EXCEPT !.RemoteAddr = a]
    /\ last' = [NoCall EXCEPT !.op = "mutate"]
    /\ UNCHANGED <<env, trustVars, keys, notCtx>>

\* the process environment changes (os.Setenv) while the process runs
SetEnv ==
    /\ \E e \in EnvChanges : e # env /\ env' = e
    /\ UNCHANGED <<trustVars, ctxVars, notCtx>>

Init == TrustInit /\ CtxInit /\ PickIdle /\ OnceIdle /\ SecretsIdle /\ FrameIdle

Next ==
    \/ RealClientIP
    \/ CallRealClientIPFromRequest
    \/ TrustedProxies
    \/ SetHeader
    \/ SetRemoteAddr
    \/ SetEnv

Spec == Init /\ [][Next]_vars

(***************************************************************************)
(* Candidate selection alone                                               *)
(***************************************************************************)
PickInit ==
    /\ env = <<>>
    /\ trustedProxyList = <<>>
    /\ trustedProxyCIDRs = <<>>
    /\ onceDone = 0
    /\ loadedFrom = <<>>
    /\ CtxIdle
    /\ chain \in Chains
    /\ picked = [done |-> FALSE, val |-> <<>>]
    /\ OnceIdle
    /\ SecretsIdle
    /\ FrameIdle

\* the header value whose entries are chain
headerOf(c) == Join(c, <<",">>)

Pick ==
    /\ ~picked.done
    /\ chain # <<>>
    /\ picked' = [done |-> TRUE, val |-> pickForwardedIP(headerOf(chain))]
    /\ UNCHANGED <<env, trustVars, ctxVars, chain, onceVars, secVars, frameVars>>

PickNext == Pick

SpecPick == PickInit /\ [][PickNext]_vars


(***************************************************************************)
(* Concurrent callers of loadTrustedProxies: sync.Once.Do step by step     *)
(* (the load of done, the mutex, the second load, the body line by line,   *)
(* the deferred store of done, the unlock), then the caller's read.        *)
(***************************************************************************)
OnceInit == TrustInit /\ CtxIdle /\ PickIdle /\ OnceIdle /\ SecretsIdle /\ FrameIdle

notOnce == <<ctxVars, pickVars, secVars, frameVars>>

\* pc' = pc with goroutine p at label l
Goto(p, l) == pc' = [pc EXCEPT ![p] = l]

\* a goroutine calls TrustedProxies() or isTrustedProxyIP(ip): both start
\* with loadTrustedProxies(), line 58 and line 98
Call(p) ==
    /\ pc[p] = "idle"
    /\ calls[p] < MaxCalls
    /\ \E op \in {"TrustedProxies", "isTrustedProxyIP"} :
         obs' = [obs EXCEPT ![p] = [read |-> FALSE, op |-> op, val |-> <<>>]]
    /\ Goto(p, "fast")
    /\ UNCHANGED <<env, trustVars, onceMu, proxiesEnv, calls, notOnce>>

\* Once.Do: if o.done.Load() == 0 { o.doSlow(f) }
FastPath(p) ==
    /\ pc[p] = "fast"
    /\ Goto(p, IF onceDone = 0 THEN "lock" ELSE "read")
    /\ UNCHANGED <<env, trustVars, onceMu, proxiesEnv, calls, obs, notOnce>>

\* Lock without the mutex: the goroutine goes on whoever holds it
LockNoWait(p) ==
    /\ pc[p] = "lock"
    /\ onceMu' = p
    /\ Goto(p, "slow")
    /\ UNCHANGED <<env, trustVars, proxiesEnv, calls, obs, notOnce>>

\* doSlow: o.m.Lock(), which waits while another goroutine holds the mutex
Lock(p) ==
    /\ pc[p] = "lock"
    /\ onceMu = 0
    /\ onceMu' = p
    /\ Goto(p, "slow")
    /\ UNCHANGED <<env, trustVars, proxiesEnv, calls, obs, notOnce>>

\* doSlow without the second load of done: the body runs whenever the
\* mutex has been taken
SlowCheckNoRecheck(p) ==
    /\ pc[p] = "slow"
    /\ Goto(p, "L109")
    /\ UNCHANGED <<env, trustVars, onceMu, proxiesEnv, calls, obs, notOnce>>

\* doSlow: if o.done.Load() == 0 { defer o.done.Store(1); f() }
SlowCheck(p) ==
    /\ pc[p] = "slow"
    /\ Goto(p, IF onceDone = 0 THEN "L109" ELSE "unlock")
    /\ UNCHANGED <<env, trustVars, onceMu, proxiesEnv, calls, obs, notOnce>>

\* line 109
BodyGetenv(p) ==
    /\ pc[p] = "L109"
    /\ proxiesEnv' = [proxiesEnv EXCEPT ![p] = env]
    /\ loadedFrom' = Append(loadedFrom, env)
    /\ Goto(p, "L110")
    /\ UNCHANGED <<env, trustedProxyList, trustedProxyCIDRs, onceDone, onceMu,
                   calls, obs, notOnce>>

\* line 110
BodySplit(p) ==
    /\ pc[p] = "L110"
    /\ trustedProxyList' = splitProxyList(proxiesEnv[p])
    /\ Goto(p, "L111")
    /\ UNCHANGED <<env, trustedProxyCIDRs, onceDone, loadedFrom, onceMu,
                   proxiesEnv, calls, obs, notOnce>>

\* lines 111-113
BodyDefault(p) ==
    /\ pc[p] = "L111"
    /\ trustedProxyList' = listOrDefault(trustedProxyList)
    /\ Goto(p, "L114")
    /\ UNCHANGED <<env, trustedProxyCIDRs, onceDone, loadedFrom, onceMu,
                   proxiesEnv, calls, obs, notOnce>>

\* line 114
BodyParse(p) ==
    /\ pc[p] = "L114"
    /\ trustedProxyCIDRs' = parseProxyCIDRs(trustedProxyList)
    /\ Goto(p, "L115")
    /\ UNCHANGED <<env, trustedProxyList, onceDone, loadedFrom, onceMu,
                   proxiesEnv, calls, obs, notOnce>>

\* lines 115-116
BodyReset(p) ==
    /\ pc[p] = "L115"
    /\ IF Len(trustedProxyCIDRs) = 0
       THEN trustedProxyList' = DefaultProxyList /\ Goto(p, "L117")
       ELSE UNCHANGED trustedProxyList /\ Goto(p, "store")
    /\ UNCHANGED <<env, trustedProxyCIDRs, onceDone, loadedFrom, onceMu,
                   proxiesEnv, calls, obs, notOnce>>

\* line 117
BodyReparse(p) ==
    /\ pc[p] = "L117"
    /\ trustedProxyCIDRs' = parseProxyCIDRs(trustedProxyList)
    /\ Goto(p, "store")
    /\ UNCHANGED <<env, trustedProxyList, onceDone, loadedFrom, onceMu,
                   proxiesEnv, calls, obs, notOnce>>

\* the deferred o.done.Store(1)
StoreDone(p) ==
    /\ pc[p] = "store"
    /\ onceDone' = 1
    /\ Goto(p, "unlock")
    /\ UNCHANGED <<env, trustedProxyList, trustedProxyCIDRs, loadedFrom, onceMu,
                   proxiesEnv, calls, obs, notOnce>>

\* the deferred o.m.Unlock()
Unlock(p) ==
    /\ pc[p] = "unlock"
    /\ onceMu' = 0
    /\ Goto(p, "read")
    /\ UNCHANGED <<env, trustVars, proxiesEnv, calls, obs, notOnce>>

\* the caller's read after loadTrustedProxies() returned: line 59 copies
\* trustedProxyList, line 99 ranges over trustedProxyCIDRs
Read(p) ==
    /\ pc[p] = "read"
    /\ obs' = [obs EXCEPT ![p] =
                  [read |-> TRUE, op |-> obs[p].op,
                   val |-> IF obs[p].op = "TrustedProxies" THEN trustedProxyList
                           ELSE trustedProxyCIDRs]]
    /\ calls' = [calls EXCEPT ![p] = calls[p] + 1]
    /\ Goto(p, "idle")
    /\ UNCHANGED <<env, trustVars, onceMu, proxiesEnv, notOnce>>

\* the process environment changes while goroutines run
OnceSetEnv ==
    /\ \E e \in EnvChanges : e # env /\ env' = e
    /\ UNCHANGED <<trustVars, onceVars, notOnce>>

OnceNext ==
    \/ \E p \in Procs : Call(p)
    \/ \E p \in Procs : FastPath(p)
    \/ \E p \in Procs : Lock(p)
    \/ \E p \in Procs : SlowCheck(p)
    \/ \E p \in Procs : BodyGetenv(p)
    \/ \E p \in Procs : BodySplit(p)
    \/ \E p \in Procs : BodyDefault(p)
    \/ \E p \in Procs : BodyParse(p)
    \/ \E p \in Procs : BodyReset(p)
    \/ \E p \in Procs : BodyReparse(p)
    \/ \E p \in Procs : StoreDone(p)
    \/ \E p \in Procs : Unlock(p)
    \/ \E p \in Procs : Read(p)
    \/ OnceSetEnv

SpecOnce == OnceInit /\ [][OnceNext]_vars

(***************************************************************************)
(* Concurrent calls of RealClientIP, RealClientIPFromRequest and           *)
(* TrustedProxies: every goroutine serves a gin context of its own; a call *)
(* that reaches loadTrustedProxies goes through sync.Once.Do step by step  *)
(* and then reads the ranges at line 99 or the list at line 59.            *)
(***************************************************************************)
\* values of TRUSTED_PROXIES at the start: "10.0.0.0/8", "not-an-ip, also-bad"
FrameEnvs ==
    { <<"1","0",".","0",".","0",".","0","/","8">>,
      <<"n","o","t","-","a","n","-","i","p",","," ","a","l","s","o","-","b","a","d">> }

\* the header of the requests: X-Forwarded-For: 203.0.113.7, 10.0.0.5
FrameHeader ==
    [n \in HeaderNameSet |->
        IF n = "X-Forwarded-For"
        THEN <<"2","0","3",".","0",".","1","1","3",".","7",","," ","1","0",".","0",".","0",".","5">>
        ELSE <<>>]

\* the requests: RemoteAddr "10.0.0.1:443", "203.0.113.9:1234" and
\* "bad-addr" with the header, and nil
FrameRequests ==
    << MkRequest(<<"1","0",".","0",".","0",".","1",":","4","4","3">>, FrameHeader),
       MkRequest(<<"2","0","3",".","0",".","1","1","3",".","9",":","1","2","3","4">>, FrameHeader),
       MkRequest(<<"b","a","d","-","a","d","d","r">>, FrameHeader),
       NilRequest >>

\* the request goroutine p serves when the first goroutine serves the k-th
FrameRequest(p, k) == FrameRequests[((p + k - 2) % Len(FrameRequests)) + 1]

FrameInit ==
    /\ env \in FrameEnvs
    /\ trustedProxyList = <<>>
    /\ trustedProxyCIDRs = <<>>
    /\ onceDone = 0
    /\ loadedFrom = <<>>
    /\ CtxIdle
    /\ PickIdle
    /\ OnceIdle
    /\ SecretsIdle
    /\ \E k \in 1..Len(FrameRequests) :
         ctx = [p \in Procs |-> [req |-> FrameRequest(p, k), keys |-> NoKey]]
    /\ call = [p \in Procs |-> NoFrameCall]

notFrame == <<env, trustVars, onceMu, proxiesEnv, calls, obs, ctxVars, pickVars, secVars>>

\* when a call starts: before the trusted-proxy set is initialised, after
\* it, or after it with TRUSTED_PROXIES no longer what the loader read
Phase ==
    IF onceDone = 0 THEN "uninit"
    ELSE IF env = loadedFrom[1] THEN "init"
    ELSE "initEnvChanged"

\* a call returns: key is Keys[realClientIPKey] of its context afterwards
returnCall(p, key) ==
    /\ ctx' = [ctx EXCEPT ![p].keys = key]
    /\ call' = [call EXCEPT ![p] = NoFrameCall]
    /\ Goto(p, "idle")

\* RealClientIPFromRequest has returned ip: lines 29-33 in RealClientIP,
\* which store a non-empty ip; the return in a direct call
finishCall(p, op, c, ip) ==
    returnCall(p, IF op = "RealClientIP" /\ ip # <<>>
                  THEN [set |-> TRUE, val |-> ip] ELSE c.keys)

\* whether a call enters loadTrustedProxies: TrustedProxies() always (line
\* 58), a resolver call when its request reaches isTrustedProxyIP (line 43)
entersLoader(op, r) == op = "TrustedProxies" \/ reachesTrustCheck(r)

\* a call starts, lines 23-28, 39-43 and 58: a stored IP is returned at
\* once, a call that enters loadTrustedProxies goes on in sync.Once.Do, any
\* other is resolved without the trusted-proxy set
beginCall(p, op, c) ==
    IF op = "RealClientIP" /\ c.keys.set /\ c.keys.val # <<>>
    THEN returnCall(p, c.keys)
    ELSE IF entersLoader(op, c.req)
    THEN /\ call' = [call EXCEPT ![p] = [op |-> op, phase |-> Phase]]
         /\ Goto(p, "fast")
         /\ UNCHANGED ctx
    ELSE finishCall(p, op, c, RealClientIPFromRequest(c.req, <<>>))

\* a goroutine calls RealClientIP(c), RealClientIPFromRequest(c.Request) or
\* TrustedProxies()
FrameBegin(p) ==
    /\ pc[p] = "idle"
    /\ \E op \in {"RealClientIP", "RealClientIPFromRequest", "TrustedProxies"} :
         /\ op = "RealClientIP" => ~ctx[p].req.nil
         /\ beginCall(p, op, ctx[p])
    /\ UNCHANGED notFrame

\* loadTrustedProxies() has returned.  In isTrustedProxyIP lines 99-104
\* read trustedProxyCIDRs, and the call resolves and returns; in
\* TrustedProxies line 59 returns a copy of trustedProxyList
FrameFinish(p) ==
    /\ pc[p] = "read"
    /\ IF call[p].op = "TrustedProxies"
       THEN returnCall(p, ctx[p].keys)
       ELSE finishCall(p, call[p].op, ctx[p],
                       RealClientIPFromRequest(ctx[p].req, trustedProxyCIDRs))
    /\ UNCHANGED notFrame

FrameNext ==
    \/ \E p \in Procs : FrameBegin(p)
    \/ \E p \in Procs : FastPath(p)
    \/ \E p \in Procs : Lock(p)
    \/ \E p \in Procs : SlowCheck(p)
    \/ \E p \in Procs : BodyGetenv(p)
    \/ \E p \in Procs : BodySplit(p)
    \/ \E p \in Procs : BodyDefault(p)
    \/ \E p \in Procs : BodyParse(p)
    \/ \E p \in Procs : BodyReset(p)
    \/ \E p \in Procs : BodyReparse(p)
    \/ \E p \in Procs : StoreDone(p)
    \/ \E p \in Procs : Unlock(p)
    \/ \E p \in Procs : FrameFinish(p)
    \/ OnceSetEnv

SpecFrame == FrameInit /\ [][FrameNext]_vars

(***************************************************************************)
(* EnsurePersistentSecrets on instances that share one options table.      *)
(* Every statement on the table is one step and may fail with an error;    *)
(* what an instance does between two statements is part of the step.       *)
(***************************************************************************)
optionKeySessionSecret == "SessionSecret"

optionKeyCryptoSecret == "CryptoSecret"

\* the length generateSecretHex is called with, line 96
SecretByteLen == 32

\* hex.EncodeToString
EncodeToString(buf) ==
    IF Len(buf) = 0 THEN <<>>
    ELSE [i \in 1..(2 * Len(buf)) |->
            IF i % 2 = 1 THEN HexLower[(buf[(i + 1) \div 2] \div 16) + 1]
            ELSE HexLower[(buf[i \div 2] % 16) + 1]]

\* generateSecretHex, with buf what rand.Read filled in
generateSecretHex(byteLen, buf) ==
    IF byteLen <= 0 THEN <<>> ELSE EncodeToString(buf)

\* what rand.Read may fill a buffer of n bytes with
RandomBufs(n) == {[i \in 1..n |-> 171], [i \in 1..n |-> (7 * i) % 256]}

\* getOptionValue: (value, found) of a row, without the error
getOptionValue(key) ==
    IF options[key].found THEN [value |-> options[key].value, found |-> TRUE]
    ELSE [value |-> <<>>, found |-> FALSE]

\* upsertOption: the table after the statement
upsertOption(key, value) ==
    [options EXCEPT ![key] = [found |-> TRUE, value |-> value]]

\* storeSessionSecretIfAbsent: the table after the statement
storeSessionSecretIfAbsent(secret) ==
    IF options[optionKeySessionSecret].found THEN options
    ELSE [options EXCEPT ![optionKeySessionSecret] = [found |-> TRUE, value |-> secret]]

\* a row is usable: lines 91-92, 41-42, 112-113
usable(opt) == opt.found /\ TrimSpace(opt.value) # <<>>

\* resolveSessionSecret, with opt the row read and generated the new secret
resolveSessionSecret(envValue, opt, generated) ==
    IF envValue # <<>> THEN [value |-> envValue, source |-> "env"]
    ELSE IF usable(opt) THEN [value |-> TrimSpace(opt.value), source |-> "db"]
    ELSE [value |-> generated, source |-> "generated"]

\* resolveCryptoSecret, with opt the row read
resolveCryptoSecret(envValue, sessionSecret, opt) ==
    IF envValue # <<>> THEN envValue
    ELSE IF usable(opt) THEN TrimSpace(opt.value)
    ELSE sessionSecret

SessionEnvValues == {<<>>, <<" ", "e", "1">>}

CryptoEnvValues == {<<>>, <<"c", "1">>}

SessionRows == {NoRow, [found |-> TRUE, value |-> <<>>],
                [found |-> TRUE, value |-> <<" ", "\f">>],
                [found |-> TRUE, value |-> <<"d", "1", "U+00A0">>]}

CryptoRows == {NoRow, [found |-> TRUE, value |-> <<"k", "1">>]}

OsEnvs == [SESSION_SECRET : SessionEnvValues, CRYPTO_SECRET : CryptoEnvValues]

SecretsInit ==
    /\ env = <<>>
    /\ trustedProxyList = <<>>
    /\ trustedProxyCIDRs = <<>>
    /\ onceDone = 0
    /\ loadedFrom = <<>>
    /\ CtxIdle
    /\ PickIdle
    /\ OnceIdle
    /\ \E sr \in SessionRows, cr \in CryptoRows :
         options = [k \in {optionKeySessionSecret, optionKeyCryptoSecret} |->
                      IF k = optionKeySessionSecret THEN sr ELSE cr]
    /\ osEnv \in [Instances -> OsEnvs]
    /\ ipc = [i \in Instances |-> "L22"]
    /\ loc = [i \in Instances |-> NoLocals]
    /\ secrets = [i \in Instances |-> NoSecrets]
    /\ ret = [i \in Instances |-> "running"]
    /\ FrameIdle

notSecrets == <<env, trustVars, ctxVars, pickVars, onceVars, frameVars>>

At(i, l) == ipc' = [ipc EXCEPT ![i] = l]

\* "return err": lines 27, 35, 39, 51, 59, 64
ReturnErr(i) ==
    /\ ipc' = [ipc EXCEPT ![i] = "done"]
    /\ ret' = [ret EXCEPT ![i] = "err"]

\* lines 22-23
ReadEnv(i) ==
    /\ ipc[i] = "L22"
    /\ loc' = [loc EXCEPT ![i].sessionSecretFromEnv = TrimSpace(osEnv[i].SESSION_SECRET),
                          ![i].cryptoSecretFromEnv = TrimSpace(osEnv[i].CRYPTO_SECRET)]
    /\ At(i, "L25")
    /\ UNCHANGED <<options, osEnv, secrets, ret, notSecrets>>

\* lines 25-30 after resolveSessionSecret returned r without an error
resolvedSession(i, r) ==
    /\ loc' = [loc EXCEPT ![i].sessionSecret = r.value,
                          ![i].sessionSecretSource = r.source,
                          ![i].generatedSessionSecret = (r.source = "generated")]
    /\ At(i, IF r.source = "generated" THEN "L34" ELSE "L47")
    /\ UNCHANGED ret

\* lines 25-30: resolveSessionSecret; it reads the table only when the
\* environment gives no value, and the read or rand.Read may fail
ResolveSession(i) ==
    /\ ipc[i] = "L25"
    /\ IF loc[i].sessionSecretFromEnv # <<>>
       THEN resolvedSession(i, resolveSessionSecret(loc[i].sessionSecretFromEnv, NoRow, <<>>))
       ELSE \/ /\ ReturnErr(i)
               /\ UNCHANGED loc
            \/ \E buf \in RandomBufs(SecretByteLen) :
                 resolvedSession(i, resolveSessionSecret(loc[i].sessionSecretFromEnv,
                                        getOptionValue(optionKeySessionSecret),
                                        generateSecretHex(SecretByteLen, buf)))
    /\ UNCHANGED <<options, osEnv, secrets, notSecrets>>

\* line 34
StoreIfAbsent(i) ==
    /\ ipc[i] = "L34"
    /\ \/ /\ ReturnErr(i)
          /\ UNCHANGED options
       \/ /\ options' = storeSessionSecretIfAbsent(loc[i].sessionSecret)
          /\ At(i, "L37")
          /\ UNCHANGED ret
    /\ UNCHANGED <<osEnv, loc, secrets, notSecrets>>

\* lines 41-45 with opt the row read at line 37
readBack(i, opt) ==
    IF usable(opt)
    THEN loc' = [loc EXCEPT ![i].sessionSecret = TrimSpace(opt.value),
                            ![i].sessionSecretSource = "db"]
    ELSE UNCHANGED loc

\* lines 37-46
ReadBack(i) ==
    /\ ipc[i] = "L37"
    /\ \/ /\ ReturnErr(i)
          /\ UNCHANGED loc
       \/ /\ readBack(i, getOptionValue(optionKeySessionSecret))
          /\ At(i, "L47")
          /\ UNCHANGED ret
    /\ UNCHANGED <<options, osEnv, secrets, notSecrets>>

\* line 47
SetSessionSecret(i) ==
    /\ ipc[i] = "L47"
    /\ secrets' = [secrets EXCEPT ![i].SessionSecret = loc[i].sessionSecret]
    /\ At(i, "L49")
    /\ UNCHANGED <<options, osEnv, loc, ret, notSecrets>>

\* lines 49-53: resolveCryptoSecret; it reads the table only when the
\* environment gives no value
ResolveCrypto(i) ==
    /\ ipc[i] = "L49"
    /\ \/ /\ loc[i].cryptoSecretFromEnv = <<>>
          /\ ReturnErr(i)
          /\ UNCHANGED secrets
       \/ /\ secrets' = [secrets EXCEPT ![i].CryptoSecret =
                            resolveCryptoSecret(loc[i].cryptoSecretFromEnv,
                                                loc[i].sessionSecret,
                                                getOptionValue(optionKeyCryptoSecret))]
          /\ At(i, "L57")
          /\ UNCHANGED ret
    /\ UNCHANGED <<options, osEnv, loc, notSecrets>>

\* lines 57-61
UpsertSession(i) ==
    /\ ipc[i] = "L57"
    /\ IF loc[i].sessionSecretSource = "env"
       THEN \/ /\ ReturnErr(i)
               /\ UNCHANGED options
            \/ /\ options' = upsertOption(optionKeySessionSecret, loc[i].sessionSecret)
               /\ At(i, "L62")
               /\ UNCHANGED ret
       ELSE /\ At(i, "L62")
            /\ UNCHANGED <<options, ret>>
    /\ UNCHANGED <<osEnv, loc, secrets, notSecrets>>

\* lines 62-66
UpsertCrypto(i) ==
    /\ ipc[i] = "L62"
    /\ IF loc[i].cryptoSecretFromEnv # <<>>
       THEN \/ /\ ReturnErr(i)
               /\ UNCHANGED options
            \/ /\ options' = upsertOption(optionKeyCryptoSecret, loc[i].cryptoSecretFromEnv)
               /\ At(i, "L68")
               /\ UNCHANGED ret
       ELSE /\ At(i, "L68")
            /\ UNCHANGED <<options, ret>>
    /\ UNCHANGED <<osEnv, loc, secrets, notSecrets>>

\* lines 68-80
ReturnNil(i) ==
    /\ ipc[i] = "L68"
    /\ ret' = [ret EXCEPT ![i] = "nil"]
    /\ At(i, "done")
    /\ UNCHANGED <<options, osEnv, loc, secrets, notSecrets>>

\* an instance that returned is restarted without SESSION_SECRET and
\* CRYPTO_SECRET in its environment
Restart(i) ==
    /\ ipc[i] = "done"
    /\ osEnv[i] # [SESSION_SECRET |-> <<>>, CRYPTO_SECRET |-> <<>>]
    /\ osEnv' = [osEnv EXCEPT ![i] = [SESSION_SECRET |-> <<>>, CRYPTO_SECRET |-> <<>>]]
    /\ At(i, "L22")
    /\ loc' = [loc EXCEPT ![i] = NoLocals]
    /\ secrets' = [secrets EXCEPT ![i] = NoSecrets]
    /\ ret' = [ret EXCEPT ![i] = "running"]
    /\ UNCHANGED <<options, notSecrets>>

SecretsNext ==
    \/ \E i \in Instances : ReadEnv(i)
    \/ \E i \in Instances : ResolveSession(i)
    \/ \E i \in Instances : StoreIfAbsent(i)
    \/ \E i \in Instances : ReadBack(i)
    \/ \E i \in Instances : SetSessionSecret(i)
    \/ \E i \in Instances : ResolveCrypto(i)
    \/ \E i \in Instances : UpsertSession(i)
    \/ \E i \in Instances : UpsertCrypto(i)
    \/ \E i \in Instances : ReturnNil(i)
    \/ \E i \in Instances : Restart(i)

SpecSecrets == SecretsInit /\ [][SecretsNext]_vars

(***************************************************************************)
(* Strings the properties name                                             *)
(***************************************************************************)
\* "203.0.113.7, 10.0.0.5"
S_203_0_113_7_10_0_0_5 == <<"2","0","3",".","0",".","1","1","3",".","7",","," ","1","0",".","0",".","0",".","5">>

\* "203.0.113.9"
S_203_0_113_9 == <<"2","0","3",".","0",".","1","1","3",".","9">>

\* "10.0.0.5"
S_10_0_0_5 == <<"1","0",".","0",".","0",".","5">>

\* "unknown"
S_unknown == <<"u","n","k","n","o","w","n">>

\* " 198.51.100.9 "
S_sp_198_51_100_9_sp == <<" ","1","9","8",".","5","1",".","1","0","0",".","9"," ">>

\* "198.51.100.9"
S_198_51_100_9 == <<"1","9","8",".","5","1",".","1","0","0",".","9">>


(***************************************************************************)
(* Properties of the resolver                                              *)
(***************************************************************************)
RemoteIP == parseRemoteIP(req.RemoteAddr)

\* the last operation was a resolution of the request as it is now
Resolved ==
    /\ last.op \in {"RealClientIP", "RealClientIPFromRequest"}
    /\ last.arg = "req"
    /\ last.parsed

Untrusted == RemoteIP.ok /\ ~cidrsContain(trustedProxyCIDRs, RemoteIP)

Trusted == RemoteIP.ok /\ cidrsContain(trustedProxyCIDRs, RemoteIP)

\* C1, as amended: for a request whose remote address parses to an IP that
\* lies in no trusted range, the resolution returns the canonical text of
\* that IP (the host part of the remote address, parsed and formatted), and
\* it returns the same for every content of the three headers.
C1_SpoofingResistance ==
    (Resolved /\ Untrusted) =>
        /\ last.result = IPString(RemoteIP)
        /\ \A h \in Headers :
             RealClientIPFromRequest(MkRequest(req.RemoteAddr, h),
                                     trustedProxyCIDRs) = last.result

\* C1 witness: an untrusted remote address was resolved while the request
\* carried a forwarded-for chain with a public first entry.
C1_Witness ==
    /\ Resolved /\ Untrusted
    /\ req.Header["X-Forwarded-For"] = S_203_0_113_7_10_0_0_5
    /\ last.result = S_203_0_113_9

\* C1 as stated: for an untrusted remote address the resolution returns the
\* remote address verbatim.
C1_Verbatim ==
    (Resolved /\ Untrusted) => last.result = req.RemoteAddr

\* the candidate the header named n yields
Candidate(n) == pickForwardedIP(req.Header[n])

\* C3: for a trusted remote address the resolution returns the candidate of
\* X-Forwarded-For if it has one, else that of X-Real-IP, else that of
\* CF-Connecting-IP, and the remote IP only when none of the three has one.
C3_HeaderPriority ==
    (Resolved /\ Trusted) =>
        last.result =
            IF Candidate("X-Forwarded-For") # <<>> THEN Candidate("X-Forwarded-For")
            ELSE IF Candidate("X-Real-IP") # <<>> THEN Candidate("X-Real-IP")
            ELSE IF Candidate("CF-Connecting-IP") # <<>> THEN Candidate("CF-Connecting-IP")
            ELSE IPString(RemoteIP)

\* C3 witness: a trusted remote address, the first two headers present
\* without a valid IP, and the third header's address returned.
C3_Witness ==
    /\ Resolved /\ Trusted
    /\ req.Header["X-Forwarded-For"] # <<>> /\ Candidate("X-Forwarded-For") = <<>>
    /\ req.Header["X-Real-IP"] # <<>> /\ Candidate("X-Real-IP") = <<>>
    /\ last.result = req.Header["CF-Connecting-IP"]
    /\ last.result # <<>>

\* no token of the configuration string e parses as an IP or a CIDR
NoValidToken(e) ==
    \A i \in 1..Len(splitProxyList(e)) : ~parseProxyCIDR(splitProxyList(e)[i]).ok

\* C4: after loadTrustedProxies the raw list and the parsed list are both
\* non-empty; when the configuration string held no token, or only tokens
\* that do not parse, the raw list is exactly ["0.0.0.0/0", "::/0"] and
\* every remote address that parses to an IP is trusted.
C4_NeverEmpty ==
    onceDone = 1 =>
        /\ Len(trustedProxyList) > 0
        /\ Len(trustedProxyCIDRs) > 0
        /\ NoValidToken(loadedFrom[1]) =>
             /\ trustedProxyList = DefaultProxyList
             /\ \A a \in RemoteAddrs :
                  parseRemoteIP(a).ok =>
                      cidrsContain(trustedProxyCIDRs, parseRemoteIP(a))

\* C4 witness: the set was loaded from a string whose tokens are all
\* invalid, and an IPv6 remote address was then resolved as trusted.
C4_Witness ==
    /\ onceDone = 1
    /\ splitProxyList(loadedFrom[1]) # <<>>
    /\ NoValidToken(loadedFrom[1])
    /\ Resolved /\ Trusted /\ ~IsTo4(RemoteIP)

\* C6 as stated: after loadTrustedProxies no token that fails to parse is
\* in the list TrustedProxies() returns, and the raw list and the parsed
\* list have the same length.
C6_InvalidDropped ==
    onceDone = 1 =>
        /\ Len(trustedProxyList) = Len(trustedProxyCIDRs)
        /\ \A i \in 1..Len(trustedProxyList) : parseProxyCIDR(trustedProxyList[i]).ok

\* C5: once a non-empty IP is stored on the context it stays stored, and a
\* RealClientIP call made from then on returns it without resolving again,
\* whatever the request holds by then.
C5_CacheSticky ==
    [][(keys.set /\ keys.val # <<>>) =>
          /\ keys' = keys
          /\ (last'.op = "RealClientIP" /\ last' # last) =>
                (last'.result = keys.val /\ ~last'.parsed)]_vars

\* C5 witness: RealClientIP answered from the cache after the request was
\* changed, with a value the changed request would not resolve to.
C5_Witness ==
    /\ last.op = "RealClientIP" /\ last.after = "mutate" /\ ~last.parsed
    /\ last.result # <<>>
    /\ RealClientIPFromRequest(req, trustedProxyCIDRs) # last.result

\* C9, as amended: two RealClientIP calls in a row on a context whose
\* request is unchanged return the same string, and the second call does not
\* resolve again when the remote address parses to an IP (the first call
\* then found or stored a result on the context).
C9_Idempotent ==
    (last.op = "RealClientIP" /\ last.after = "same") =>
        /\ last.result = last.prev
        /\ RemoteIP.ok => ~last.parsed

\* C9 witness: a second call in a row answered from the value the first
\* call stored.
C9_Witness ==
    /\ last.op = "RealClientIP" /\ last.after = "same"
    /\ ~last.parsed /\ last.result # <<>> /\ last.result = last.prev

\* C9 as stated: the second of two calls in a row returns the same string
\* and never resolves again, also when the resolution is empty.
C9_NeverReparses ==
    (last.op = "RealClientIP" /\ last.after = "same") =>
        (last.result = last.prev /\ ~last.parsed)

\* a step whose last operation is a call of the resolver
\* a goroutine is between Lock() and Unlock() of the Once's mutex
InDoSlow(p) ==
    pc[p] \in {"slow", "L109", "L110", "L111", "L114", "L115", "L117", "store", "unlock"}

\* the process-wide trusted-proxy variables hold what the loader built
TrustSetIs(b) == trustedProxyList = b.list /\ trustedProxyCIDRs = b.cidrs

\* C8, as amended.  Frame: no step changes a request; a context's stored
\* IP changes only when a RealClientIP call on that context returns, to a
\* non-empty IP, and no other context changes with it; no step of a call
\* changes the environment.  After initialisation: a call that starts once
\* the trusted-proxy set is initialised never reaches the Once's mutex, so
\* it cannot block, and no step changes the process-wide trusted-proxy
\* variables, which are, when the Once is marked done, what the loader
\* built from the TRUSTED_PROXIES it read.  Before: the variables are
\* written only by a goroutine that holds the mutex inside the loader's
\* body, in a call that started uninitialised and is either
\* TrustedProxies() or a resolver call on a request that reaches the trust
\* check; every goroutine between Lock and Unlock holds the mutex, so the
\* other first callers wait; and a caller reads the ranges or the list only
\* after the run is done.
C8_Frame ==
    /\ [](\A p \in Procs :
            /\ (pc[p] = "lock" \/ InDoSlow(p)) => call[p].phase = "uninit"
            /\ InDoSlow(p) => onceMu = p
            /\ pc[p] = "read" => onceDone = 1
            /\ onceDone = 1 => Len(loadedFrom) = 1)
    /\ [][/\ \A p \in Procs :
               /\ ctx'[p].req = ctx[p].req
               /\ ctx'[p].keys # ctx[p].keys =>
                    /\ call[p].op = "RealClientIP" /\ pc[p] = "read" /\ pc'[p] = "idle"
                    /\ ctx'[p].keys.set /\ ctx'[p].keys.val # <<>>
                    /\ \A q \in Procs \ {p} : ctx'[q] = ctx[q]
          /\ env' # env => (pc' = pc /\ call' = call /\ ctx' = ctx)
          /\ (onceDone = 0 /\ onceDone' = 1) => TrustSetIs(loadBody(loadedFrom[1]))
          /\ onceDone = 1 =>
               UNCHANGED <<trustedProxyList, trustedProxyCIDRs, onceDone, loadedFrom>>
          /\ <<trustedProxyList, trustedProxyCIDRs>>' # <<trustedProxyList, trustedProxyCIDRs>> =>
               \E p \in Procs :
                   /\ onceMu = p /\ pc[p] \in {"L110", "L111", "L114", "L115", "L117"}
                   /\ call[p].phase = "uninit"
                   /\ entersLoader(call[p].op, ctx[p].req)]_vars

\* C8 witness: a resolver call that started after the set was initialised
\* and after TRUSTED_PROXIES was changed to a value that would load another
\* set has come through loadTrustedProxies and is about to read the ranges
\* at line 99, while another goroutine is inside a call of its own.
C8_Witness ==
    \E p \in Procs :
        /\ pc[p] = "read" /\ call[p].phase = "initEnvChanged"
        /\ call[p].op \in {"RealClientIP", "RealClientIPFromRequest"}
        /\ \E q \in Procs \ {p} : pc[q] # "idle"
        /\ loadBody(env).list # trustedProxyList

\* C8 as stated: a call never blocks, and no call, the first one in the
\* process included, changes the process-wide trusted-proxy variables.
C8_NoCallWrites ==
    /\ [](\A p \in Procs : ~(pc[p] = "lock" /\ onceMu # 0))
    /\ [][UNCHANGED <<trustedProxyList, trustedProxyCIDRs>>]_vars

(***************************************************************************)
(* Properties of the one-time initialisation                               *)
(***************************************************************************)
InBody(p) == pc[p] \in {"L109", "L110", "L111", "L114", "L115", "L117", "store"}

\* C7: the body of the loader runs at most once, whatever the interleaving
\* of the first callers; a caller reads the trust set only after that run
\* has completed, so what it reads is the complete result of the one run;
\* all callers read the same; and the trust set never changes once the run
\* has completed.
C7_OnceOnly ==
    /\ [](/\ Len(loadedFrom) <= 1
          /\ onceDone = 1 => Len(loadedFrom) = 1
          /\ \A p \in Procs :
               /\ pc[p] = "read" => (onceDone = 1 /\ \A q \in Procs : ~InBody(q))
               /\ obs[p].read =>
                    /\ obs[p].val # <<>>
                    /\ obs[p].val = IF obs[p].op = "TrustedProxies"
                                    THEN loadBody(loadedFrom[1]).list
                                    ELSE loadBody(loadedFrom[1]).cidrs
                    /\ \A q \in Procs :
                         (obs[q].read /\ obs[q].op = obs[p].op) => obs[q].val = obs[p].val)
    /\ [][onceDone = 1 =>
            UNCHANGED <<trustedProxyList, trustedProxyCIDRs, onceDone, loadedFrom>>]_vars

\* C7 witness: a first caller waits for the mutex while another first
\* caller is inside the body with the list stored and the ranges not yet
\* parsed.
C7_Witness ==
    \E p, q \in Procs :
        /\ pc[p] = "lock" /\ pc[q] = "L114" /\ onceMu = q
        /\ trustedProxyList # <<>> /\ trustedProxyCIDRs = <<>>

(***************************************************************************)
(* Properties of the persistent secrets                                    *)
(***************************************************************************)
\* C10: when EnsurePersistentSecrets returns without an error, the options
\* table holds a SessionSecret row whose value is not empty and is, spaces
\* around it aside, the common.SessionSecret the instance has set.
C10_RestartDurable ==
    [][\A i \in Instances :
         (ret[i] # "nil" /\ ret'[i] = "nil") =>
            /\ options'[optionKeySessionSecret].found
            /\ TrimSpace(options'[optionKeySessionSecret].value) # <<>>
            /\ TrimSpace(options'[optionKeySessionSecret].value)
                 = secrets'[i].SessionSecret]_vars

(***************************************************************************)
(* Properties of the candidate selection                                   *)
(***************************************************************************)
Trimmed(c) == [i \in 1..Len(c) |-> TrimSpace(c[i])]

ValidAt(c) == {i \in 1..Len(c) : ParseIP(Trimmed(c)[i]).ok}

PublicAt(c) == {i \in ValidAt(c) : ~IsPrivateIP(ParseIP(Trimmed(c)[i]))}

Least(S) == CHOOSE i \in S : \A j \in S : i <= j

IsValidEntry(e) == ParseIP(TrimSpace(e)).ok

\* C2: pickForwardedIP returns the first entry (trimmed) that parses as an
\* IP and is not private/reserved; else the first entry that parses as an
\* IP; else the empty string; and the header value without its empty and
\* unparseable entries yields the same.
C2_CandidateSelection ==
    picked.done =>
        /\ picked.val =
             IF PublicAt(chain) # {} THEN Trimmed(chain)[Least(PublicAt(chain))]
             ELSE IF ValidAt(chain) # {} THEN Trimmed(chain)[Least(ValidAt(chain))]
             ELSE <<>>
        /\ picked.val = pickForwardedIP(headerOf(SelectSeq(chain, IsValidEntry)))

\* C2 witness: a private entry, an unparseable entry, then a public entry
\* with spaces around it, which is returned without them.
C2_Witness ==
    /\ picked.done
    /\ chain = <<S_10_0_0_5, S_unknown, S_sp_198_51_100_9_sp>>
    /\ picked.val = S_198_51_100_9

====
